---- MODULE Spec2Model ----
(***************************************************************************)
(* Tier-gated data access and billing reconciliation of                    *)
(* the-spreadsheet-backend: the entitlement properties of User, the tier   *)
(* router, the Stripe webhook handlers of StripeService with the           *)
(* SubscriptionService calls they make, and the checkout endpoints.        *)
(*                                                                         *)
(* Conventions.  None is NULL (0) for timestamps, row ids and provider     *)
(* ids (all integers, the real ones start at 1) and NoPlan / NoStr for     *)
(* strings.  A table is a sequence of rows and a row's primary key is its  *)
(* index.  A store is the record of the four tables plus the users; every  *)
(* service call maps a store to the store it commits.                      *)
(***************************************************************************)
EXTENDS Integers, Sequences, FiniteSets, TLC

VARIABLES
    users,            \* auth.users: user id -> row (legacy billing fields)
    subscriptions,    \* auth.subscriptions
    purchases,        \* auth.purchases
    payment_history,  \* auth.payment_history
    now,              \* the wall clock read by datetime.now()
    customers,        \* provider side: customer id -> the user it was created for
    sessions,         \* provider side: checkout sessions created so far
    last,             \* the last request served: operation, input, outcome
    pending,          \* the webhook handler in flight: the store it started
                      \* from, then the commits it has still to make
    requests          \* checkout requests that have loaded their user: the
                      \* row each one holds, and the session it created

vars == <<users, subscriptions, purchases, payment_history, now, customers,
          sessions, last, pending, requests>>

(***************************************************************************)
(* Bounds of the model                                                     *)
(***************************************************************************)
MaxClock == 4
MaxRows == 1
MaxRaceClock == 5
MaxWeek == 3

NULL == 0
NoStr == "-"
NoPlan == "no_plan"

Users == {"u1", "u2"}

(***************************************************************************)
(* Plan registry (auth.plans).  The two seeded plans, and a plan whose     *)
(* capability set grants both features, the shape the Plan.features column *)
(* documents.                                                              *)
(***************************************************************************)
PlanIds == {"premium", "bidding", "bundle"}

Plans ==
    [p \in PlanIds |->
        CASE p = "premium" -> [stripe_price_id |-> "price_premium",
                               plan_type |-> "subscription",
                               features |-> {"premium_access", "real_time_data"}]
          [] p = "bidding" -> [stripe_price_id |-> "price_bidding",
                               plan_type |-> "one_time",
                               features |-> {"bidding_package"}]
          [] p = "bundle"  -> [stripe_price_id |-> "price_bundle",
                               plan_type |-> "subscription",
                               features |-> {"premium_access", "bidding_package"}]]

STRIPE_PRICE_ID == "price_premium"
STRIPE_BIDDING_PACKAGE_PRICE_ID == "price_bidding"

\* SubscriptionService.get_plan_by_id
get_plan_by_id(plan_id) == IF plan_id \in PlanIds THEN plan_id ELSE NoPlan

\* SubscriptionService.get_plan_by_stripe_price_id (stripe_price_id is unique)
get_plan_by_stripe_price_id(price) ==
    IF \E p \in PlanIds : Plans[p].stripe_price_id = price
    THEN CHOOSE p \in PlanIds : Plans[p].stripe_price_id = price
    ELSE NoPlan

\* plan.features.get(feature_key)
PlanGrants(plan_id, feature_key) ==
    plan_id \in PlanIds /\ feature_key \in Plans[plan_id].features

(***************************************************************************)
(* The store                                                               *)
(***************************************************************************)
NewUser ==
    [is_superuser |-> FALSE,
     subscription_tier |-> "free",
     stripe_customer_id |-> NULL,
     stripe_subscription_id |-> NULL,
     subscription_status |-> "none",
     subscription_current_period_end |-> NULL,
     subscription_cancel_at_period_end |-> FALSE,
     has_bidding_package |-> FALSE]

Store ==
    [users |-> users, subscriptions |-> subscriptions, purchases |-> purchases,
     payment_history |-> payment_history]

EmptyStore ==
    [users |-> [u \in Users |-> NewUser], subscriptions |-> <<>>,
     purchases |-> <<>>, payment_history |-> <<>>]

Rows(table) == 1..Len(table)

ActiveStatuses == {"active", "trialing"}

(***************************************************************************)
(* Entitlement Resolver (app/models/users.py)                              *)
(***************************************************************************)
\* User.subscriptions / User.purchases: the relationship collections
UserSubscriptions(s, u) == {i \in Rows(s.subscriptions) : s.subscriptions[i].user_id = u}
UserPurchases(s, u) == {i \in Rows(s.purchases) : s.purchases[i].user_id = u}

\* The legacy fallback of has_premium_access
LegacyPremium(user) ==
    user.subscription_tier = "subscriber" /\ user.subscription_status \in ActiveStatuses

\* Premium access read from the legacy fields alone
has_premium_access_LegacyOnly(s, u) ==
    \/ s.users[u].is_superuser
    \/ LegacyPremium(s.users[u])

\* User.has_premium_access
has_premium_access(s, u) ==
    \/ s.users[u].is_superuser
    \/ \E i \in UserSubscriptions(s, u) :
          /\ s.subscriptions[i].status \in ActiveStatuses
          /\ PlanGrants(s.subscriptions[i].plan_id, "premium_access")
    \/ LegacyPremium(s.users[u])

\* User.has_bidding_package_access
has_bidding_package_access(s, u) ==
    \/ s.users[u].is_superuser
    \/ \E i \in UserPurchases(s, u) :
          /\ s.purchases[i].status = "completed"
          /\ PlanGrants(s.purchases[i].plan_id, "bidding_package")
    \/ s.users[u].has_bidding_package

\* SubscriptionService.user_has_feature: no superuser rule, no legacy fallback
user_has_feature(s, u, feature_key) ==
    \/ \E i \in UserSubscriptions(s, u) :
          /\ s.subscriptions[i].status \in ActiveStatuses
          /\ PlanGrants(s.subscriptions[i].plan_id, feature_key)
    \/ \E i \in UserPurchases(s, u) :
          /\ s.purchases[i].status = "completed"
          /\ PlanGrants(s.purchases[i].plan_id, feature_key)

(***************************************************************************)
(* Tier Router (app/util/tier_routing.py, app/util/subscription.py).       *)
(* The caller is a user id, or NoStr for None.                             *)
(***************************************************************************)
Datasets == {"player_card", "goalie_card", "team_card", "player_stats",
             "goalie_stats", "playoff_odds"}

\* get_player_card_model and its five siblings: user.has_premium_access is read
\* with no None check, so None raises AttributeError
get_model(s, caller, dataset) ==
    IF caller = NoStr THEN "AttributeError"
    ELSE IF has_premium_access(s, caller) THEN "premium" ELSE "free"

Max(a, b) == IF a >= b THEN a ELSE b

\* The previous week with no floor at week 0
get_allowed_data_week_Unclamped(s, caller, current_data_week) ==
    IF caller = NoStr THEN current_data_week - 1
    ELSE IF has_premium_access(s, caller) THEN current_data_week
    ELSE current_data_week - 1

\* get_allowed_data_week
get_allowed_data_week(s, caller, current_data_week) ==
    IF caller = NoStr THEN Max(0, current_data_week - 1)
    ELSE IF has_premium_access(s, caller) THEN current_data_week
    ELSE Max(0, current_data_week - 1)

(***************************************************************************)
(* SubscriptionService (app/services/subscription_service.py).  Optional   *)
(* booleans are <<>> for None and <<b>> for a value.                       *)
(***************************************************************************)
NoBool == <<>>

\* get_subscription_by_stripe_id: scalar_one_or_none over a unique column
get_subscription_by_stripe_id(s, stripe_subscription_id) ==
    LET hit == {i \in Rows(s.subscriptions) :
                   s.subscriptions[i].stripe_subscription_id = stripe_subscription_id}
    IN  IF hit = {} THEN NULL ELSE CHOOSE i \in hit : TRUE

\* get_active_subscription: the rows the query selects; scalar_one_or_none raises
\* MultipleResultsFound when there are two
ActiveSubscriptionRows(s, user_id, plan_id) ==
    {i \in Rows(s.subscriptions) :
        /\ s.subscriptions[i].user_id = user_id
        /\ s.subscriptions[i].status \in ActiveStatuses
        /\ (plan_id # NoPlan => s.subscriptions[i].plan_id = plan_id)}

\* create_subscription: cancel_at_period_end, canceled_at and ended_at take the
\* column defaults
create_subscription(s, user_id, plan_id, stripe_subscription_id, status, current_period_start, current_period_end, trial_start, trial_end) ==
    [s EXCEPT !.subscriptions = Append(@,
        [user_id |-> user_id,
         plan_id |-> plan_id,
         stripe_subscription_id |-> stripe_subscription_id,
         status |-> status,
         current_period_start |-> current_period_start,
         current_period_end |-> current_period_end,
         cancel_at_period_end |-> FALSE,
         canceled_at |-> NULL,
         ended_at |-> NULL,
         trial_start |-> trial_start,
         trial_end |-> trial_end])]

\* update_subscription_status: status always, the rest only when not None
update_subscription_status(s, i, status, current_period_start, current_period_end, cancel_at_period_end, canceled_at, ended_at) ==
    [s EXCEPT !.subscriptions[i] =
        [@ EXCEPT
            !.status = status,
            !.current_period_start =
                IF current_period_start # NULL THEN current_period_start ELSE @,
            !.current_period_end =
                IF current_period_end # NULL THEN current_period_end ELSE @,
            !.cancel_at_period_end =
                IF cancel_at_period_end # NoBool THEN cancel_at_period_end[1] ELSE @,
            !.canceled_at = IF canceled_at # NULL THEN canceled_at ELSE @,
            !.ended_at = IF ended_at # NULL THEN ended_at ELSE @]]

\* get_purchase: the user's completed purchase of the plan
CompletedPurchaseRows(s, user_id, plan_id) ==
    {i \in Rows(s.purchases) :
        /\ s.purchases[i].user_id = user_id
        /\ s.purchases[i].plan_id = plan_id
        /\ s.purchases[i].status = "completed"}

\* get_purchase_by_checkout_session
get_purchase_by_checkout_session(s, checkout_session_id) ==
    LET hit == {i \in Rows(s.purchases) :
                   s.purchases[i].stripe_checkout_session_id = checkout_session_id}
    IN  IF hit = {} THEN NULL ELSE CHOOSE i \in hit : TRUE

\* A purchases table without the uniqueness constraint
ViolatesUserPlanUnique_Off(s, user_id, plan_id) == FALSE

\* uq_user_plan_purchase: the INSERT of create_purchase raises IntegrityError
ViolatesUserPlanUnique(s, user_id, plan_id) ==
    \E i \in Rows(s.purchases) :
        s.purchases[i].user_id = user_id /\ s.purchases[i].plan_id = plan_id

\* create_purchase
create_purchase(s, user_id, plan_id, stripe_checkout_session_id) ==
    [s EXCEPT !.purchases = Append(@,
        [user_id |-> user_id,
         plan_id |-> plan_id,
         stripe_payment_intent_id |-> NULL,
         stripe_checkout_session_id |-> stripe_checkout_session_id,
         status |-> "pending",
         purchased_at |-> NULL])]

\* A completion that leaves purchased_at as it was
complete_purchase_NoStamp(s, i, stripe_payment_intent_id, t) ==
    [s EXCEPT !.purchases[i] =
        [@ EXCEPT
            !.status = "completed",
            !.stripe_payment_intent_id =
                IF stripe_payment_intent_id # NULL THEN stripe_payment_intent_id ELSE @]]

\* complete_purchase: stamps purchased_at whatever the status was
complete_purchase(s, i, stripe_payment_intent_id, t) ==
    [s EXCEPT !.purchases[i] =
        [@ EXCEPT
            !.status = "completed",
            !.purchased_at = t,
            !.stripe_payment_intent_id =
                IF stripe_payment_intent_id # NULL THEN stripe_payment_intent_id ELSE @]]

\* record_payment: always an INSERT
record_payment(s, user_id, event_type, status, subscription_id, purchase_id, stripe_invoice_id, stripe_payment_intent_id) ==
    [s EXCEPT !.payment_history = Append(@,
        [user_id |-> user_id,
         subscription_id |-> subscription_id,
         purchase_id |-> purchase_id,
         event_type |-> event_type,
         status |-> status,
         stripe_invoice_id |-> stripe_invoice_id,
         stripe_payment_intent_id |-> stripe_payment_intent_id])]

(***************************************************************************)
(* Webhook events.  One record shape for every event type; a handler reads *)
(* only the keys its payload has.                                          *)
(***************************************************************************)
BlankEvent ==
    [type |-> "unknown.event", customer |-> NULL, id |-> NULL, subscription |-> NULL,
     status |-> NoStr, current_period_start |-> NULL, current_period_end |-> NULL,
     cancel_at |-> NULL, cancel_at_period_end |-> FALSE, trial_start |-> NULL,
     trial_end |-> NULL, price |-> NoStr, mode |-> NoStr, product_type |-> NoStr,
     plan_id |-> NoPlan, payment_intent |-> NULL]

(***************************************************************************)
(* StripeService webhook handlers (app/services/stripe_service.py).  A     *)
(* handler maps the store to the sequence of stores it commits, one per    *)
(* session.commit() that has something to write; <<>> when it returns      *)
(* before writing.  A commit flushes everything the session holds, the     *)
(* pending legacy-field writes on the user included.                       *)
(***************************************************************************)
\* _get_user_by_customer_id.  The mutation below drops the handlers' test for an
\* absent customer id, so that the lookup matches users holding none
get_user_by_customer_id_NullMatches(s, customer_id) ==
    LET hit == {u \in Users : s.users[u].stripe_customer_id = customer_id}
    IN  IF hit = {} THEN NoStr ELSE CHOOSE u \in hit : TRUE

get_user_by_customer_id(s, customer_id) ==
    LET hit == {u \in Users : s.users[u].stripe_customer_id = customer_id}
    IN  IF customer_id = NULL \/ hit = {} THEN NoStr ELSE CHOOSE u \in hit : TRUE

\* _handle_checkout_completed
handle_checkout_completed(s, ev, t) ==
    LET u == get_user_by_customer_id(s, ev.customer)
        flagged == [s EXCEPT !.users[u].has_bidding_package = TRUE]
        purchase == get_purchase_by_checkout_session(s, ev.id)
        completed == complete_purchase(flagged, purchase, ev.payment_intent, t)
        recorded == record_payment(completed, u, "payment_succeeded", "succeeded",
                                   NULL, purchase, NULL, ev.payment_intent)
    IN  IF u = NoStr THEN <<>>
        ELSE IF ev.mode = "payment" /\ ev.product_type = "bidding_package"
        THEN IF ev.plan_id # NoPlan /\ purchase # NULL
             THEN <<completed, recorded>>
             ELSE <<flagged>>
        ELSE IF ev.subscription # NULL
        THEN <<[s EXCEPT !.users[u].stripe_subscription_id = ev.subscription]>>
        ELSE <<>>

\* A deletion handler that returns when it finds no Subscription row
handle_subscription_deleted_SkipUnknown(s, ev, t) ==
    LET u == get_user_by_customer_id(s, ev.customer)
        reset == [s EXCEPT !.users[u] =
                    [@ EXCEPT !.subscription_tier = "free",
                              !.subscription_status = "canceled",
                              !.stripe_subscription_id = NULL,
                              !.subscription_current_period_end = NULL,
                              !.subscription_cancel_at_period_end = FALSE]]
        sub == get_subscription_by_stripe_id(s, ev.id)
    IN  IF u = NoStr THEN <<>>
        ELSE IF ev.id # NULL /\ sub # NULL
        THEN <<update_subscription_status(reset, sub, "canceled", NULL, NULL, NoBool,
                                          NULL, t)>>
        ELSE <<>>

\* _handle_subscription_deleted
handle_subscription_deleted(s, ev, t) ==
    LET u == get_user_by_customer_id(s, ev.customer)
        reset == [s EXCEPT !.users[u] =
                    [@ EXCEPT !.subscription_tier = "free",
                              !.subscription_status = "canceled",
                              !.stripe_subscription_id = NULL,
                              !.subscription_current_period_end = NULL,
                              !.subscription_cancel_at_period_end = FALSE]]
        sub == get_subscription_by_stripe_id(s, ev.id)
    IN  IF u = NoStr THEN <<>>
        ELSE IF ev.id # NULL /\ sub # NULL
        THEN <<update_subscription_status(reset, sub, "canceled", NULL, NULL, NoBool,
                                          NULL, t)>>
        ELSE <<reset>>

\* _handle_invoice_paid
handle_invoice_paid(s, ev, t) ==
    LET u == get_user_by_customer_id(s, ev.customer)
        sub == IF ev.subscription # NULL
               THEN get_subscription_by_stripe_id(s, ev.subscription) ELSE NULL
    IN  IF u = NoStr THEN <<>>
        ELSE <<record_payment(s, u, "payment_succeeded", "succeeded", sub, NULL,
                              ev.id, ev.payment_intent)>>

\* A payment-failure handler that writes no PaymentHistory row
handle_payment_failed_NoHistory(s, ev, t) ==
    LET u == get_user_by_customer_id(s, ev.customer)
        marked == [s EXCEPT !.users[u].subscription_status = "past_due"]
        sub == IF ev.subscription # NULL
               THEN get_subscription_by_stripe_id(s, ev.subscription) ELSE NULL
    IN  IF u = NoStr THEN <<>>
        ELSE IF sub # NULL
        THEN <<update_subscription_status(marked, sub, "past_due", NULL, NULL,
                                          NoBool, NULL, NULL)>>
        ELSE <<marked>>

\* _handle_payment_failed
handle_payment_failed(s, ev, t) ==
    LET u == get_user_by_customer_id(s, ev.customer)
        marked == [s EXCEPT !.users[u].subscription_status = "past_due"]
        sub == IF ev.subscription # NULL
               THEN get_subscription_by_stripe_id(s, ev.subscription) ELSE NULL
        updated == update_subscription_status(marked, sub, "past_due", NULL, NULL,
                                              NoBool, NULL, NULL)
    IN  IF u = NoStr THEN <<>>
        ELSE IF sub # NULL
        THEN <<updated,
               record_payment(updated, u, "payment_failed", "failed", sub, NULL,
                              ev.id, NULL)>>
        ELSE <<record_payment(marked, u, "payment_failed", "failed", NULL, NULL,
                              ev.id, NULL)>>

\* A status table that takes an unpaid subscription for an active one
status_map_UnpaidActive(stripe_status) ==
    CASE stripe_status \in {"active", "unpaid"} -> "active"
      [] stripe_status = "trialing" -> "trialing"
      [] stripe_status = "past_due" -> "past_due"
      [] stripe_status = "canceled" -> "canceled"
      [] OTHER -> "none"

\* status_map of _update_user_subscription, .get(stripe_status, "none")
status_map(stripe_status) ==
    CASE stripe_status = "active" -> "active"
      [] stripe_status = "trialing" -> "trialing"
      [] stripe_status = "past_due" -> "past_due"
      [] stripe_status = "canceled" -> "canceled"
      [] stripe_status = "unpaid" -> "past_due"
      [] stripe_status = "incomplete" -> "none"
      [] stripe_status = "incomplete_expired" -> "none"
      [] OTHER -> "none"

\* A legacy write that leaves the tier as it was
LegacyFromSubscription_TierKept(user, ev) ==
    [user EXCEPT
        !.stripe_subscription_id = ev.id,
        !.subscription_status = status_map(ev.status),
        !.subscription_current_period_end =
            IF ev.current_period_end # NULL THEN ev.current_period_end
            ELSE IF ev.cancel_at # NULL THEN ev.cancel_at ELSE @,
        !.subscription_cancel_at_period_end =
            (ev.cancel_at_period_end \/ ev.cancel_at # NULL)]

\* _update_user_subscription: the legacy fields it writes on the user
LegacyFromSubscription(user, ev) ==
    [user EXCEPT
        !.stripe_subscription_id = ev.id,
        !.subscription_status = status_map(ev.status),
        !.subscription_tier =
            IF status_map(ev.status) \in ActiveStatuses THEN "subscriber" ELSE "free",
        !.subscription_current_period_end =
            IF ev.current_period_end # NULL THEN ev.current_period_end
            ELSE IF ev.cancel_at # NULL THEN ev.cancel_at ELSE @,
        !.subscription_cancel_at_period_end =
            (ev.cancel_at_period_end \/ ev.cancel_at # NULL)]

\* _update_user_subscription (_handle_subscription_created and
\* _handle_subscription_updated both call it).  The mutation below records a
\* payment for the subscription it inserts
update_user_subscription_RecordsPayment(s, ev, t) ==
    LET u == get_user_by_customer_id(s, ev.customer)
        legacy == [s EXCEPT !.users[u] = LegacyFromSubscription(@, ev)]
        plan == IF ev.price # NoStr THEN get_plan_by_stripe_price_id(ev.price)
                ELSE NoPlan
        sub == get_subscription_by_stripe_id(s, ev.id)
    IN  IF u = NoStr THEN <<>>
        ELSE IF plan = NoPlan THEN <<legacy>>
        ELSE IF sub # NULL
        THEN <<update_subscription_status(
                   legacy, sub, status_map(ev.status), ev.current_period_start,
                   ev.current_period_end,
                   <<(ev.cancel_at_period_end \/ ev.cancel_at # NULL)>>, NULL, NULL)>>
        ELSE <<record_payment(
                   create_subscription(
                       legacy, u, plan, ev.id, status_map(ev.status),
                       ev.current_period_start, ev.current_period_end, ev.trial_start,
                       ev.trial_end),
                   u, "subscription_created", "succeeded", Len(s.subscriptions) + 1,
                   NULL, NULL, NULL)>>

update_user_subscription(s, ev, t) ==
    LET u == get_user_by_customer_id(s, ev.customer)
        legacy == [s EXCEPT !.users[u] = LegacyFromSubscription(@, ev)]
        plan == IF ev.price # NoStr THEN get_plan_by_stripe_price_id(ev.price)
                ELSE NoPlan
        sub == get_subscription_by_stripe_id(s, ev.id)
    IN  IF u = NoStr THEN <<>>
        ELSE IF plan = NoPlan THEN <<legacy>>
        ELSE IF sub # NULL
        THEN <<update_subscription_status(
                   legacy, sub, status_map(ev.status), ev.current_period_start,
                   ev.current_period_end,
                   <<(ev.cancel_at_period_end \/ ev.cancel_at # NULL)>>, NULL, NULL)>>
        ELSE <<create_subscription(
                   legacy, u, plan, ev.id, status_map(ev.status),
                   ev.current_period_start, ev.current_period_end, ev.trial_start,
                   ev.trial_end)>>

\* handle_webhook_event: the dispatch on event["type"]; any other type falls
\* through and the event is reported as handled
handle_webhook_event(s, ev, t) ==
    CASE ev.type = "checkout.session.completed" -> handle_checkout_completed(s, ev, t)
      [] ev.type = "customer.subscription.created" -> update_user_subscription(s, ev, t)
      [] ev.type = "customer.subscription.updated" -> update_user_subscription(s, ev, t)
      [] ev.type = "customer.subscription.deleted" -> handle_subscription_deleted(s, ev, t)
      [] ev.type = "invoice.payment_succeeded" -> handle_invoice_paid(s, ev, t)
      [] ev.type = "invoice.payment_failed" -> handle_payment_failed(s, ev, t)
      [] OTHER -> <<>>

\* The store a handler leaves behind when it runs to its end
Final(s, commits) == IF commits = <<>> THEN s ELSE commits[Len(commits)]

(***************************************************************************)
(* Checkout/Portal Initiator (app/api/v1/endpoints/subscriptions.py with   *)
(* the StripeService calls).  An endpoint maps the store and the provider  *)
(* state to an outcome: the store it leaves, the provider state, the HTTP  *)
(* result and the provider calls it made, in order.                        *)
(***************************************************************************)
Outcome(s, cust, sess, result, calls) ==
    [store |-> s, customers |-> cust, sessions |-> sess, result |-> result,
     calls |-> calls]

\* StripeService.get_or_create_customer
get_or_create_customer(s, cust, u) ==
    IF s.users[u].stripe_customer_id # NULL
    THEN [store |-> s, customers |-> cust, id |-> s.users[u].stripe_customer_id,
          calls |-> <<>>]
    ELSE [store |-> [s EXCEPT !.users[u].stripe_customer_id = Len(cust) + 1],
          customers |-> Append(cust, u),
          id |-> Len(cust) + 1,
          calls |-> <<"Customer.create">>]

\* StripeService.create_checkout_session
stripe_create_checkout_session(s, cust, sess, u, plan) ==
    LET c == get_or_create_customer(s, cust, u)
        checkout_session ==
            [customer |-> c.id,
             price |-> IF plan # NoPlan THEN Plans[plan].stripe_price_id
                       ELSE STRIPE_PRICE_ID,
             mode |-> IF plan # NoPlan /\ Plans[plan].plan_type = "one_time"
                      THEN "payment" ELSE "subscription",
             plan_id |-> plan,
             product_type |-> NoStr]
    IN  Outcome(c.store, c.customers, Append(sess, checkout_session), "200",
                c.calls \o <<"checkout.Session.create">>)

\* The pre-checkout check of create_checkout_session (endpoint), lines 248-264
ExistingSubscriptionCheck(s, u, plan) ==
    IF plan # NoPlan
    THEN IF Cardinality(ActiveSubscriptionRows(s, u, plan)) > 1
         THEN "500_MultipleResultsFound"
         ELSE IF ActiveSubscriptionRows(s, u, plan) # {} THEN "400_duplicate"
         ELSE "pass"
    ELSE IF s.users[u].subscription_status \in ActiveStatuses THEN "400_duplicate"
         ELSE "pass"

\* POST /create-checkout.  plan_req is the request's plan_id, NoPlan when absent
create_checkout_session(s, cust, sess, u, plan_req) ==
    LET plan == get_plan_by_id(plan_req)
    IN  IF plan_req # NoPlan /\ plan = NoPlan
        THEN Outcome(s, cust, sess, "404_plan_not_found", <<>>)
        ELSE IF ExistingSubscriptionCheck(s, u, plan) # "pass"
        THEN Outcome(s, cust, sess, ExistingSubscriptionCheck(s, u, plan), <<>>)
        ELSE stripe_create_checkout_session(s, cust, sess, u, plan)

\* StripeService.create_bidding_package_checkout: the pending Purchase is
\* inserted after the provider session exists; the INSERT raises on
\* uq_user_plan_purchase and the endpoint answers 500
create_bidding_package_checkout(s, cust, sess, u, plan) ==
    LET c == get_or_create_customer(s, cust, u)
        checkout_session ==
            [customer |-> c.id,
             price |-> IF plan # NoPlan THEN Plans[plan].stripe_price_id
                       ELSE STRIPE_BIDDING_PACKAGE_PRICE_ID,
             mode |-> "payment",
             plan_id |-> plan,
             product_type |-> "bidding_package"]
        created == Append(sess, checkout_session)
        calls == c.calls \o <<"checkout.Session.create">>
    IN  IF plan = NoPlan THEN Outcome(c.store, c.customers, created, "200", calls)
        ELSE IF ViolatesUserPlanUnique(c.store, u, plan)
        THEN Outcome(c.store, c.customers, created, "500_IntegrityError", calls)
        ELSE Outcome(create_purchase(c.store, u, plan, Len(created)), c.customers,
                     created, "200", calls)

\* POST /purchase-bidding-package
purchase_bidding_package(s, cust, sess, u, plan_req) ==
    LET plan == get_plan_by_id(plan_req)
    IN  IF plan_req # NoPlan /\ plan = NoPlan
        THEN Outcome(s, cust, sess, "404_plan_not_found", <<>>)
        ELSE IF has_bidding_package_access(s, u)
        THEN Outcome(s, cust, sess, "400_duplicate", <<>>)
        ELSE IF plan # NoPlan /\ CompletedPurchaseRows(s, u, plan) # {}
        THEN Outcome(s, cust, sess, "400_duplicate", <<>>)
        ELSE create_bidding_package_checkout(s, cust, sess, u, plan)

\* POST /cancel with StripeService.cancel_subscription(at_period_end=True)
cancel_subscription(s, cust, sess, u, t) ==
    LET stripe_sub_id == s.users[u].stripe_subscription_id
        flagged == [s EXCEPT !.users[u].subscription_cancel_at_period_end = TRUE]
        sub == get_subscription_by_stripe_id(s, stripe_sub_id)
    IN  IF stripe_sub_id = NULL
        THEN Outcome(s, cust, sess, "400_no_subscription", <<>>)
        ELSE Outcome(
                IF sub # NULL
                THEN update_subscription_status(flagged, sub, s.subscriptions[sub].status,
                                                NULL, NULL, <<TRUE>>, t, NULL)
                ELSE flagged,
                cust, sess, "200", <<"Subscription.modify">>)

(***************************************************************************)
(* The events the provider can deliver.  The provider reports on the       *)
(* checkout sessions this system created: session k, once paid, yields     *)
(* subscription k (mode subscription) or payment intent k (mode payment).  *)
(* Deliveries are unordered and may repeat, so any snapshot of the         *)
(* subscription may arrive at any time.                                    *)
(***************************************************************************)
ProviderStatuses == {"active", "trialing", "past_due", "canceled", "unpaid", "incomplete"}

SubscriptionSessions == {k \in Rows(sessions) : sessions[k].mode = "subscription"}

CheckoutCompletedEvent(k) ==
    [BlankEvent EXCEPT
        !.type = "checkout.session.completed",
        !.customer = sessions[k].customer,
        !.id = k,
        !.subscription = IF sessions[k].mode = "subscription" THEN k ELSE NULL,
        !.mode = sessions[k].mode,
        !.product_type = sessions[k].product_type,
        !.plan_id = sessions[k].plan_id,
        !.payment_intent = IF sessions[k].mode = "payment" THEN k ELSE NULL]

SubscriptionEvent(type, k, status, period, cancel_flag, cancel_at, price) ==
    [BlankEvent EXCEPT
        !.type = type,
        !.customer = sessions[k].customer,
        !.id = k,
        !.status = status,
        !.current_period_start = period,
        !.current_period_end = IF period = NULL THEN NULL ELSE period + 1,
        !.cancel_at = cancel_at,
        !.cancel_at_period_end = cancel_flag,
        !.trial_start = IF status = "trialing" THEN period ELSE NULL,
        !.trial_end = IF status = "trialing" /\ period # NULL THEN period + 1 ELSE NULL,
        !.price = price]

\* What a subscription snapshot says about its period and its cancellation:
\* a running period, the same with cancel_at_period_end set, a cancellation
\* scheduled by timestamp alone, and a snapshot with neither
Snapshots ==
    {[period |-> now, cancel_flag |-> FALSE, cancel_at |-> NULL],
     [period |-> now, cancel_flag |-> TRUE, cancel_at |-> NULL],
     [period |-> NULL, cancel_flag |-> FALSE, cancel_at |-> now + 2],
     [period |-> NULL, cancel_flag |-> FALSE, cancel_at |-> NULL]}

\* customer.subscription.created reports a subscription as it starts;
\* customer.subscription.updated reports any later snapshot, under the price of
\* the session or one the registry does not list
SubscriptionEventsOf(k) ==
    {SubscriptionEvent("customer.subscription.created", k, status, now, FALSE, NULL,
                       sessions[k].price) :
        status \in {"active", "trialing", "incomplete"}}
    \cup
    {SubscriptionEvent("customer.subscription.updated", k, status, shot.period,
                       shot.cancel_flag, shot.cancel_at, price) :
        status \in ProviderStatuses, shot \in Snapshots,
        price \in {sessions[k].price, "price_unlisted"}}

SubscriptionEvents == UNION {SubscriptionEventsOf(k) : k \in SubscriptionSessions}

SubscriptionDeletedEvents ==
    {[BlankEvent EXCEPT !.type = "customer.subscription.deleted",
                        !.customer = sessions[k].customer,
                        !.id = k,
                        !.status = "canceled"] : k \in SubscriptionSessions}

InvoiceEvents ==
    {[BlankEvent EXCEPT !.type = type,
                        !.customer = sessions[k].customer,
                        !.id = k,
                        !.subscription = k] :
        type \in {"invoice.payment_succeeded", "invoice.payment_failed"},
        k \in SubscriptionSessions}

\* Events that correlate with nothing here: no customer, a customer no user
\* holds, a type the dispatch does not know
UncorrelatedEvents ==
    {[BlankEvent EXCEPT !.type = type, !.customer = c, !.id = 1, !.subscription = 1] :
        type \in {"checkout.session.completed", "customer.subscription.updated",
                  "customer.subscription.deleted", "invoice.payment_failed"},
        c \in {NULL, Len(customers) + 1}}
    \cup {[BlankEvent EXCEPT !.customer = c] : c \in Rows(customers)}

(***************************************************************************)
(* Actions: one request served per step.  Every request is served at a     *)
(* later instant than the one before.                                      *)
(***************************************************************************)
Commit(s) ==
    /\ users' = s.users
    /\ subscriptions' = s.subscriptions
    /\ purchases' = s.purchases
    /\ payment_history' = s.payment_history

Served(op, u, plan_req, ev, result, calls) ==
    [op |-> op, user |-> u, plan |-> plan_req, ev |-> ev, result |-> result,
     calls |-> calls]

Respond(op, u, plan_req, o) ==
    /\ Commit(o.store)
    /\ customers' = o.customers
    /\ sessions' = o.sessions
    /\ last' = Served(op, u, plan_req, BlankEvent, o.result, o.calls)
    /\ now' = now + 1
    /\ UNCHANGED <<pending, requests>>

PlanRequests == PlanIds \cup {NoPlan}

CreateCheckout(u, plan_req) ==
    /\ pending = <<>>
    /\ now < MaxClock
    /\ Respond("create-checkout", u, plan_req,
               create_checkout_session(Store, customers, sessions, u, plan_req))

PurchaseBiddingPackage(u, plan_req) ==
    /\ pending = <<>>
    /\ now < MaxClock
    /\ Respond("purchase-bidding-package", u, plan_req,
               purchase_bidding_package(Store, customers, sessions, u, plan_req))

CancelSubscription(u) ==
    /\ pending = <<>>
    /\ now < MaxClock
    /\ Respond("cancel", u, NoPlan, cancel_subscription(Store, customers, sessions, u, now))

\* POST /webhook with a verified event: the handler runs to its end
Webhook(ev) ==
    /\ pending = <<>>
    /\ Commit(Final(Store, handle_webhook_event(Store, ev, now)))
    /\ last' = Served("webhook", NoStr, NoPlan, ev, "success", <<>>)
    /\ now' = now + 1
    /\ UNCHANGED <<customers, sessions, pending, requests>>

DeliverCheckoutCompleted ==
    /\ now < MaxClock
    /\ \E k \in Rows(sessions) : Webhook(CheckoutCompletedEvent(k))
DeliverSubscriptionEvent ==
    /\ now < MaxClock
    /\ \E ev \in SubscriptionEvents : Webhook(ev)
DeliverSubscriptionDeleted ==
    /\ now < MaxClock
    /\ \E ev \in SubscriptionDeletedEvents : Webhook(ev)
DeliverInvoiceEvent ==
    /\ now < MaxClock
    /\ \E ev \in InvoiceEvents : Webhook(ev)
DeliverUncorrelated ==
    /\ now < MaxClock
    /\ \E ev \in UncorrelatedEvents : Webhook(ev)

Init ==
    /\ users = EmptyStore.users
    /\ subscriptions = <<>>
    /\ purchases = <<>>
    /\ payment_history = <<>>
    /\ now = 1
    /\ customers = <<>>
    /\ sessions = <<>>
    /\ last = Served("init", NoStr, NoPlan, BlankEvent, NoStr, <<>>)
    /\ pending = <<>>
    /\ requests = <<>>

Next ==
    \/ \E u \in Users, plan_req \in PlanRequests : CreateCheckout(u, plan_req)
    \/ \E u \in Users, plan_req \in PlanRequests : PurchaseBiddingPackage(u, plan_req)
    \/ \E u \in Users : CancelSubscription(u)
    \/ DeliverCheckoutCompleted
    \/ DeliverSubscriptionEvent
    \/ DeliverSubscriptionDeleted
    \/ DeliverInvoiceEvent
    \/ DeliverUncorrelated

Spec == Init /\ [][Next]_vars

(***************************************************************************)
(* SpecEntitle: the entitlement properties and the tier router as          *)
(* functions of the principal's records.  Init draws the records of u1;    *)
(* the actions evaluate.                                                   *)
(***************************************************************************)
\* (tier, status) pairs the reconciler leaves on a user
LegacyStates ==
    {<<"free", "none">>, <<"subscriber", "active">>, <<"subscriber", "trialing">>,
     <<"subscriber", "past_due">>, <<"free", "past_due">>, <<"free", "canceled">>}

BoundedSeq(S, n) == UNION {[1..m -> S] : m \in 0..n}

SubscriptionPlans == {p \in PlanIds : Plans[p].plan_type = "subscription"}

DrawnSubscriptions ==
    {[i \in Rows(q) |->
        [user_id |-> "u1", plan_id |-> q[i][1], stripe_subscription_id |-> i,
         status |-> q[i][2], current_period_start |-> NULL,
         current_period_end |-> NULL, cancel_at_period_end |-> FALSE,
         canceled_at |-> NULL, ended_at |-> NULL, trial_start |-> NULL,
         trial_end |-> NULL]] :
     q \in BoundedSeq(SubscriptionPlans \X {"active", "trialing", "past_due", "canceled"},
                      MaxRows)}

\* uq_user_plan_purchase: one purchase row per plan
DrawnPurchases ==
    {[i \in Rows(q) |->
        [user_id |-> "u1", plan_id |-> q[i][1], stripe_payment_intent_id |-> NULL,
         stripe_checkout_session_id |-> i, status |-> q[i][2],
         purchased_at |-> NULL]] :
     q \in {r \in BoundedSeq(PlanIds \X {"pending", "completed"}, MaxRows) :
               \A i, j \in Rows(r) : i # j => r[i][1] # r[j][1]}}

InitEntitle ==
    /\ \E legacy \in LegacyStates, bidding \in BOOLEAN, superuser \in BOOLEAN :
          users = [u \in Users |->
                     IF u = "u1"
                     THEN [NewUser EXCEPT !.subscription_tier = legacy[1],
                                          !.subscription_status = legacy[2],
                                          !.has_bidding_package = bidding,
                                          !.is_superuser = superuser]
                     ELSE NewUser]
    /\ subscriptions \in DrawnSubscriptions
    /\ purchases \in DrawnPurchases
    \* _handle_checkout_completed sets the legacy flag with every purchase it completes
    /\ (\E i \in Rows(purchases) : purchases[i].status = "completed")
            => users["u1"].has_bidding_package
    /\ payment_history = <<>>
    /\ now = 1
    /\ customers = <<>>
    /\ sessions = <<>>
    /\ last = Served("init", NoStr, NoPlan, BlankEvent, NoStr, <<>>)
    /\ pending = <<>>
    /\ requests = <<>>

\* Reads leave the store as it is, so one read of each drawn store shows all
\* there is to see.
\* A gated request: both properties of the user are read
CheckAccess(u) ==
    /\ last.op = "init"
    /\ last' = Served("check-access", u, NoPlan, BlankEvent,
                      [premium_access |-> has_premium_access(Store, u),
                       bidding_package |-> has_bidding_package_access(Store, u)],
                      <<>>)
    /\ UNCHANGED <<users, subscriptions, purchases, payment_history, now, customers,
                   sessions, pending, requests>>

\* A read request: the six get_*_model functions applied to the caller
SelectDataset(caller) ==
    /\ last.op = "init"
    /\ last' = Served("select-dataset", caller, NoPlan, BlankEvent,
                      [d \in Datasets |-> get_model(Store, caller, d)], <<>>)
    /\ UNCHANGED <<users, subscriptions, purchases, payment_history, now, customers,
                   sessions, pending, requests>>

\* A snapshot read: the freshness bound for the caller at the current data week
AllowedDataWeek(caller, current_data_week) ==
    /\ last.op = "init"
    /\ last' = Served("allowed-data-week", caller, NoPlan, BlankEvent,
                      [current_data_week |-> current_data_week,
                       allowed |-> get_allowed_data_week(Store, caller,
                                                         current_data_week)],
                      <<>>)
    /\ UNCHANGED <<users, subscriptions, purchases, payment_history, now, customers,
                   sessions, pending, requests>>

NextEntitle ==
    \/ \E u \in Users : CheckAccess(u)
    \/ \E caller \in Users \cup {NoStr} : SelectDataset(caller)
    \/ \E caller \in Users \cup {NoStr}, current_data_week \in 0..MaxWeek :
          AllowedDataWeek(caller, current_data_week)

SpecEntitle == InitEntitle /\ [][NextEntitle]_vars

(***************************************************************************)
(* SpecTxn: the webhook handlers at the grain of their commits.  A         *)
(* delivery starts a handler, which reads the store once; each further     *)
(* step makes the handler's next session.commit() visible to every other   *)
(* database session.                                                       *)
(***************************************************************************)
ProviderEvents ==
    {CheckoutCompletedEvent(k) : k \in Rows(sessions)} \cup SubscriptionEvents
        \cup SubscriptionDeletedEvents \cup InvoiceEvents \cup UncorrelatedEvents

\* POST /webhook received: the handler starts
ReceiveWebhook ==
    /\ pending = <<>>
    /\ now < MaxClock
    /\ \E ev \in ProviderEvents :
          LET commits == handle_webhook_event(Store, ev, now)
          IN  /\ pending' = IF commits = <<>> THEN <<>> ELSE <<Store>> \o commits
              /\ last' = Served("webhook", NoStr, NoPlan, ev,
                                IF commits = <<>> THEN "success" ELSE "running", <<>>)
    /\ now' = now + 1
    /\ UNCHANGED <<users, subscriptions, purchases, payment_history, customers, sessions,
                   requests>>

\* The handler in flight reaches its next session.commit()
CommitNext ==
    /\ pending # <<>>
    /\ Commit(pending[2])
    /\ pending' = IF Len(pending) = 2 THEN <<>>
                  ELSE <<pending[1]>> \o SubSeq(pending, 3, Len(pending))
    /\ last' = [last EXCEPT !.result = IF Len(pending) = 2 THEN "success" ELSE @]
    /\ UNCHANGED <<now, customers, sessions, requests>>

NextTxn ==
    \/ \E u \in Users, plan_req \in PlanRequests : CreateCheckout(u, plan_req)
    \/ \E u \in Users, plan_req \in PlanRequests : PurchaseBiddingPackage(u, plan_req)
    \/ ReceiveWebhook
    \/ CommitNext

SpecTxn == Init /\ [][NextTxn]_vars

(***************************************************************************)
(* SpecRace: checkouts for subscription plans and the provider's reports   *)
(* on the subscriptions they start, interleaved.                           *)
(***************************************************************************)
StartCheckout(u, plan_req) ==
    /\ now < MaxRaceClock
    /\ Respond("create-checkout", u, plan_req,
               create_checkout_session(Store, customers, sessions, u, plan_req))

\* customer.subscription.created for the subscription a paid session started
SubscriptionStarted ==
    /\ now < MaxRaceClock
    /\ \E k \in SubscriptionSessions, status \in {"active", "trialing"} :
          Webhook(SubscriptionEvent("customer.subscription.created", k, status, now,
                                    FALSE, NULL, sessions[k].price))

SubscriptionEnded ==
    /\ now < MaxRaceClock
    /\ \E ev \in SubscriptionDeletedEvents : Webhook(ev)

NextRace ==
    \/ \E u \in Users, plan_req \in SubscriptionPlans : StartCheckout(u, plan_req)
    \/ SubscriptionStarted
    \/ SubscriptionEnded

SpecRace == Init /\ [][NextRace]_vars

(***************************************************************************)
(* SpecSignup: the sign-up scenario.  A subscription checkout is paid, the *)
(* provider delivers checkout.session.completed and, right after it,       *)
(* customer.subscription.created for the subscription the session started. *)
(***************************************************************************)
SignupCheckout(u, plan_req) ==
    /\ now < MaxRaceClock
    /\ Respond("create-checkout", u, plan_req,
               create_checkout_session(Store, customers, sessions, u, plan_req))

SignupCheckoutCompleted ==
    /\ now < MaxRaceClock
    /\ \E k \in SubscriptionSessions : Webhook(CheckoutCompletedEvent(k))

SignupSubscriptionCreated ==
    /\ now < MaxRaceClock
    /\ last.op = "webhook"
    /\ last.ev.type = "checkout.session.completed"
    /\ last.ev.subscription # NULL
    /\ \E status \in {"active", "trialing", "incomplete"} :
          Webhook(SubscriptionEvent("customer.subscription.created",
                                    last.ev.subscription, status, now, FALSE, NULL,
                                    sessions[last.ev.subscription].price))

SignupSubscriptionDeleted ==
    /\ now < MaxRaceClock
    /\ \E ev \in SubscriptionDeletedEvents : Webhook(ev)

NextSignup ==
    \/ \E u \in Users, plan_req \in SubscriptionPlans \cup {NoPlan} :
          SignupCheckout(u, plan_req)
    \/ SignupCheckoutCompleted
    \/ SignupSubscriptionCreated
    \/ SignupSubscriptionDeleted

SpecSignup == Init /\ [][NextSignup]_vars

(***************************************************************************)
(* SpecPurchase: bidding-package checkouts, started, abandoned, repeated   *)
(* and paid, with the checkout.session.completed events of their sessions. *)
(***************************************************************************)
PurchaseStart(u, plan_req) ==
    /\ now < MaxRaceClock
    /\ Respond("purchase-bidding-package", u, plan_req,
               purchase_bidding_package(Store, customers, sessions, u, plan_req))

PurchaseCompleted ==
    /\ now < MaxRaceClock
    /\ \E k \in Rows(sessions) : Webhook(CheckoutCompletedEvent(k))

NextPurchase ==
    \/ \E u \in Users, plan_req \in PlanRequests : PurchaseStart(u, plan_req)
    \/ PurchaseCompleted

SpecPurchase == Init /\ [][NextPurchase]_vars


(***************************************************************************)
(* POST /webhook as the provider's deliveries reach it                     *)
(* (app/api/v1/endpoints/subscriptions.py, stripe_webhook): a delivery     *)
(* carries a stripe-signature header or none, a signature that verifies    *)
(* against the raw body or does not, and a body that parses or does not.   *)
(***************************************************************************)
SignatureHeaders == {"missing", "invalid", "valid"}
Payloads == {"malformed", "wellformed"}

\* stripe.Webhook.construct_event: the exceptions it can raise for a delivery.
\* The signature is computed over the raw body, so a body that does not parse
\* can carry a valid one; when both checks would fail, which one the library
\* runs first decides
construct_event(payload, sig_header) ==
    (IF payload = "malformed" THEN {"ValueError"} ELSE {})
    \cup (IF sig_header = "invalid" THEN {"SignatureVerificationError"} ELSE {})

\* The endpoint's responses to one delivery of ev: the header check, then
\* handle_webhook_event's verification, then the dispatch.  The mutation below
\* runs the dispatch before the verification
stripe_webhook_HandleFirst(s, payload, sig_header, ev, t) ==
    LET handled == Final(s, handle_webhook_event(s, ev, t))
    IN  IF sig_header = "missing"
        THEN {[store |-> s, response |-> "400_Missing stripe-signature header"]}
        ELSE IF construct_event(payload, sig_header) = {}
        THEN {[store |-> handled, response |-> "success"]}
        ELSE {[store |-> handled,
               response |-> IF raised = "ValueError" THEN "400_Invalid payload"
                            ELSE "400_Invalid signature"] :
                 raised \in construct_event(payload, sig_header)}

stripe_webhook(s, payload, sig_header, ev, t) ==
    IF sig_header = "missing"
    THEN {[store |-> s, response |-> "400_Missing stripe-signature header"]}
    ELSE IF construct_event(payload, sig_header) = {}
    THEN {[store |-> Final(s, handle_webhook_event(s, ev, t)), response |-> "success"]}
    ELSE {[store |-> s,
           response |-> IF raised = "ValueError" THEN "400_Invalid payload"
                        ELSE "400_Invalid signature"] :
             raised \in construct_event(payload, sig_header)}

\* Events no handler can apply: each of the six dispatched types for no
\* customer and for a customer no user holds, and a type outside the dispatch
DispatchedTypes ==
    {"checkout.session.completed", "customer.subscription.created",
     "customer.subscription.updated", "customer.subscription.deleted",
     "invoice.payment_succeeded", "invoice.payment_failed"}

UnappliableEvents ==
    {[BlankEvent EXCEPT !.type = type, !.customer = c, !.id = 1, !.subscription = 1,
                        !.status = "active", !.current_period_start = now,
                        !.current_period_end = now + 1, !.price = STRIPE_PRICE_ID,
                        !.mode = "payment", !.product_type = "bidding_package",
                        !.payment_intent = 1] :
        type \in DispatchedTypes, c \in {NULL, Len(customers) + 1}}
    \cup {[BlankEvent EXCEPT !.customer = c, !.id = 1, !.subscription = 1,
                             !.status = "active", !.price = STRIPE_PRICE_ID] :
             c \in Rows(customers) \cup {NULL}}

DeliveredEvents ==
    {CheckoutCompletedEvent(k) : k \in Rows(sessions)}
    \cup {SubscriptionEvent("customer.subscription.created", k, "active", now, FALSE,
                            NULL, sessions[k].price) : k \in SubscriptionSessions}
    \cup SubscriptionDeletedEvents
    \cup InvoiceEvents
    \cup UnappliableEvents

\* One delivery served: the event is known to the service only when the
\* delivery verified
PostWebhook ==
    /\ now < MaxClock
    /\ pending = <<>>
    /\ \E payload \in Payloads, sig_header \in SignatureHeaders, ev \in DeliveredEvents :
         \E o \in stripe_webhook(Store, payload, sig_header, ev, now) :
            /\ Commit(o.store)
            /\ last' = Served("post-webhook", NoStr, NoPlan,
                              IF o.response = "success" THEN ev ELSE BlankEvent,
                              [payload |-> payload, sig_header |-> sig_header,
                               response |-> o.response], <<>>)
    /\ now' = now + 1
    /\ UNCHANGED <<customers, sessions, pending, requests>>

NextWebhook ==
    \/ now < MaxClock /\ \E u \in Users, plan_req \in PlanRequests : StartCheckout(u, plan_req)
    \/ now < MaxClock /\ \E u \in Users : PurchaseStart(u, "bidding")
    \/ PostWebhook

SpecWebhook == Init /\ [][NextWebhook]_vars


(***************************************************************************)
(* Concurrent checkout requests.  Each request gets its own database       *)
(* session (app/database/session.py, get_db) and loads its User row in the *)
(* authentication dependency before the endpoint body runs; the body then  *)
(* works on that row.  A commit writes the attributes the request changed. *)
(***************************************************************************)
MaxRequests == 2

\* Depends(require_auth): the request loads the row of its user
RequestAuthenticated(u, plan_req) ==
    /\ Len(requests) < MaxRequests
    /\ requests' = Append(requests, [user |-> u, plan |-> plan_req, row |-> users[u],
                                     session |-> NULL])
    /\ UNCHANGED <<users, subscriptions, purchases, payment_history, now, customers,
                   sessions, last, pending>>

\* The endpoint body of request r, run on the row the request holds:
\* get_or_create_customer sees that row's stripe_customer_id, and its commit
\* writes the id it set
RequestServed(r) ==
    /\ requests[r].session = NULL
    /\ LET u == requests[r].user
           o == create_checkout_session([Store EXCEPT !.users[u] = requests[r].row],
                                        customers, sessions, u, requests[r].plan)
       IN  /\ users' = IF "Customer.create" \in {o.calls[i] : i \in Rows(o.calls)}
                       THEN [users EXCEPT ![u].stripe_customer_id =
                                              o.store.users[u].stripe_customer_id]
                       ELSE users
           /\ customers' = o.customers
           /\ sessions' = o.sessions
           /\ requests' = [requests EXCEPT ![r].session = Len(o.sessions)]
           /\ last' = Served("create-checkout", u, requests[r].plan, BlankEvent,
                             o.result, o.calls)
    /\ UNCHANGED <<subscriptions, purchases, payment_history, now, pending>>

NextConcurrent ==
    \/ \E u \in Users, plan_req \in PlanRequests : RequestAuthenticated(u, plan_req)
    \/ \E r \in Rows(requests) : RequestServed(r)

SpecConcurrent == Init /\ [][NextConcurrent]_vars

(***************************************************************************)
(* Properties                                                              *)
(***************************************************************************)
\* The three sources of an entitlement, as the specification lists them
SubscriptionGrants(u, feature_key) ==
    \E i \in Rows(subscriptions) :
        /\ subscriptions[i].user_id = u
        /\ subscriptions[i].status \in {"active", "trialing"}
        /\ feature_key \in Plans[subscriptions[i].plan_id].features

PurchaseGrants(u, feature_key) ==
    \E i \in Rows(purchases) :
        /\ purchases[i].user_id = u
        /\ purchases[i].status = "completed"
        /\ feature_key \in Plans[purchases[i].plan_id].features

LegacyGrants(u, feature_key) ==
    IF feature_key = "premium_access"
    THEN users[u].subscription_tier = "subscriber"
         /\ users[u].subscription_status \in {"active", "trialing"}
    ELSE users[u].has_bidding_package

Entitled(u, feature_key) ==
    SubscriptionGrants(u, feature_key) \/ PurchaseGrants(u, feature_key)
        \/ LegacyGrants(u, feature_key)

\* C1: for a non-superuser, has_premium_access / has_bidding_package_access is
\* true if and only if an active or trialing subscription, a completed purchase
\* or the legacy fields grant the feature
C1_EntitlementIffAnySource ==
    (last.op = "check-access" /\ ~users[last.user].is_superuser) =>
        /\ last.result.premium_access <=> Entitled(last.user, "premium_access")
        /\ last.result.bidding_package <=> Entitled(last.user, "bidding_package")

\* C2: dataset selection returns the premium source to a caller with premium
\* access and the free source to every other caller, the absent one included, and
\* never fails
C2_SelectionTotal ==
    last.op = "select-dataset" =>
        \A d \in Datasets :
            last.result[d] =
                IF last.user # NoStr /\ has_premium_access(Store, last.user)
                THEN "premium" ELSE "free"

\* The request served last was the webhook delivery of a subscription
\* created/updated event for a principal this system knows
SubscriptionEventServed ==
    /\ last.op = "webhook"
    /\ last.ev.type \in {"customer.subscription.created", "customer.subscription.updated"}
    /\ get_user_by_customer_id(Store, last.ev.customer) # NoStr

\* The fields of a Subscription row the reconciler derives from an event
ReconciledFields(row) ==
    [status |-> row.status, current_period_start |-> row.current_period_start,
     current_period_end |-> row.current_period_end,
     cancel_at_period_end |-> row.cancel_at_period_end,
     trial_start |-> row.trial_start, trial_end |-> row.trial_end,
     plan_id |-> row.plan_id]

\* C3: once a subscription created/updated event whose price resolves to a plan
\* has been applied, applying the same event again leaves the Subscription row
\* of its id with the same status, period, cancel_at_period_end, trial window and
\* plan, whether or not the row existed before the first application
C3_SubscriptionEventIdempotent ==
    (SubscriptionEventServed /\ get_plan_by_stripe_price_id(last.ev.price) # NoPlan) =>
        LET again == Final(Store, handle_webhook_event(Store, last.ev, now))
            once == get_subscription_by_stripe_id(Store, last.ev.id)
            twice == get_subscription_by_stripe_id(again, last.ev.id)
        IN  /\ once # NULL
            /\ twice = once
            /\ ReconciledFields(again.subscriptions[twice])
                   = ReconciledFields(subscriptions[once])

\* C5: a checkout for plan P started by a principal holding a completed
\* Purchase of P is rejected as a duplicate, by either endpoint, before any call
\* to the payment provider
C5_DuplicatePurchaseRejected ==
    (/\ last.op \in {"create-checkout", "purchase-bidding-package"}
     /\ last.plan # NoPlan
     /\ CompletedPurchaseRows(Store, last.user, last.plan) # {}) =>
        /\ last.result = "400_duplicate"
        /\ last.calls = <<>>

\* C7: a Subscription row whose status is canceled keeps that status in every
\* step, whatever request is served
C7_CanceledIsTerminal ==
    [][\A i \in Rows(subscriptions) :
          subscriptions[i].status = "canceled" => subscriptions'[i].status = "canceled"]_vars

\* C8: however often the checkout-completed event of a bidding-package session is
\* delivered, a completed Purchase has exactly one payment_succeeded row in
\* PaymentHistory
C8_OnePaymentRowPerPurchase ==
    \A i \in Rows(purchases) :
        purchases[i].status = "completed" =>
            Cardinality({h \in Rows(payment_history) :
                            /\ payment_history[h].purchase_id = i
                            /\ payment_history[h].event_type = "payment_succeeded"}) = 1

\* C9: a step leaves the ended_at of a Subscription that is canceled and stamped,
\* and the purchased_at of a Purchase that is completed, at the value the first
\* delivery stamped
C9_TerminalStampedOnce ==
    [][/\ \A i \in Rows(subscriptions) :
              (subscriptions[i].status = "canceled" /\ subscriptions[i].ended_at # NULL)
                  => subscriptions'[i].ended_at = subscriptions[i].ended_at
       /\ \A i \in Rows(purchases) :
              purchases[i].status = "completed"
                  => purchases'[i].purchased_at = purchases[i].purchased_at]_vars

\* The principal of the event served last is no superuser and has exactly one
\* Subscription row
SingleSubscriptionPrincipal ==
    LET u == get_user_by_customer_id(Store, last.ev.customer)
    IN  /\ ~users[u].is_superuser
        /\ Cardinality(UserSubscriptions(Store, u)) = 1

\* C10: after a subscription created/updated event whose price
\* resolves to a plan, a non-superuser principal with a single subscription has
\* premium access only if the event reports active or trialing
C10_EntitlementReflectsResolvedEvent ==
    (/\ SubscriptionEventServed
     /\ get_plan_by_stripe_price_id(last.ev.price) # NoPlan
     /\ SingleSubscriptionPrincipal) =>
        (has_premium_access(Store, get_user_by_customer_id(Store, last.ev.customer))
            => last.ev.status \in {"active", "trialing"})

\* C10 without the condition on the price: the same for every price id the
\* event carries, resolving or not
C10_EntitlementReflectsEvent ==
    (SubscriptionEventServed /\ SingleSubscriptionPrincipal) =>
        (has_premium_access(Store, get_user_by_customer_id(Store, last.ev.customer))
            => last.ev.status \in {"active", "trialing"})

\* An event reporting a lapsed status was applied to the one Subscription row of
\* its principal, which it found and left without premium access
C10_LapsedEventApplied ==
    /\ SubscriptionEventServed
    /\ get_plan_by_stripe_price_id(last.ev.price) # NoPlan
    /\ SingleSubscriptionPrincipal
    /\ last.ev.type = "customer.subscription.updated"
    /\ last.ev.status \in {"past_due", "unpaid", "canceled"}
    /\ \E i \in Rows(subscriptions) :
          /\ subscriptions[i].stripe_subscription_id = last.ev.id
          /\ subscriptions[i].status \in {"past_due", "canceled"}
          /\ subscriptions[i].cancel_at_period_end
    /\ ~has_premium_access(Store, get_user_by_customer_id(Store, last.ev.customer))

\* C4: while a webhook handler runs, the committed store holds either none of
\* its event's mutations or all of them
C4_ReconciliationAtomic ==
    pending # <<>> => (Store = pending[1] \/ Store = pending[Len(pending)])

\* C6: at most one Subscription per (principal, plan) is active or trialing
C6_OneActiveSubscriptionPerPlan ==
    \A u \in Users, plan_id \in PlanIds :
        Cardinality(ActiveSubscriptionRows(Store, u, plan_id)) <= 1

\* C11: once the reconciliation of an event has completed, if the legacy
\* stripe_subscription_id of the event's principal names a Subscription row, the
\* principal's legacy status and cancel flag equal that row's
C11_LegacyInSync ==
    LET u == get_user_by_customer_id(Store, last.ev.customer)
        i == get_subscription_by_stripe_id(Store, users[u].stripe_subscription_id)
    IN  (/\ last.op = "webhook"
         /\ u # NoStr
         /\ users[u].stripe_subscription_id # NULL
         /\ i # NULL) =>
            /\ users[u].subscription_status = subscriptions[i].status
            /\ users[u].subscription_cancel_at_period_end
                   = subscriptions[i].cancel_at_period_end

\* C12: after a subscription created/updated event whose price resolves to a
\* plan, whatever was applied before, the Subscription row of its id carries the
\* event's mapped status, its period where it reports one and its cancel flag, and
\* the principal's legacy status and tier are those of the event
C12_LastWriteWins ==
    (SubscriptionEventServed /\ get_plan_by_stripe_price_id(last.ev.price) # NoPlan) =>
        LET ev == last.ev
            u == get_user_by_customer_id(Store, ev.customer)
            i == get_subscription_by_stripe_id(Store, ev.id)
        IN  /\ i # NULL
            /\ subscriptions[i].status = status_map(ev.status)
            /\ ev.current_period_start # NULL
                   => subscriptions[i].current_period_start = ev.current_period_start
            /\ ev.current_period_end # NULL
                   => subscriptions[i].current_period_end = ev.current_period_end
            /\ subscriptions[i].cancel_at_period_end
                   = (ev.cancel_at_period_end \/ ev.cancel_at # NULL)
            /\ users[u].subscription_status = status_map(ev.status)
            /\ users[u].subscription_tier =
                   IF ev.status \in {"active", "trialing"} THEN "subscriber" ELSE "free"

\* The events that reconcile a subscription, and the external subscription id
\* each is about
SubscriptionReconcilingEvents ==
    SubscriptionEvents \cup SubscriptionDeletedEvents
        \cup {ev \in InvoiceEvents : ev.type = "invoice.payment_failed"}

EventSubscriptionId(ev) ==
    IF ev.type = "invoice.payment_failed" THEN ev.subscription ELSE ev.id

SubscriptionRowOf(s, stripe_subscription_id) ==
    {s.subscriptions[i] : i \in {j \in Rows(s.subscriptions) :
        s.subscriptions[j].stripe_subscription_id = stripe_subscription_id}}

\* C13: two events about different external subscription ids leave the same
\* Subscription rows and the same legacy fields on every principal whichever is
\* applied first, and neither changes the row of the other's id
C13_DifferentIdsIndependent ==
    \A e1, e2 \in SubscriptionReconcilingEvents :
        EventSubscriptionId(e1) # EventSubscriptionId(e2) =>
            LET after1 == Final(Store, handle_webhook_event(Store, e1, now))
                after12 == Final(after1, handle_webhook_event(after1, e2, now))
                after2 == Final(Store, handle_webhook_event(Store, e2, now))
                after21 == Final(after2, handle_webhook_event(after2, e1, now))
            IN  /\ after12.users = after21.users
                /\ {after12.subscriptions[i] : i \in Rows(after12.subscriptions)}
                       = {after21.subscriptions[i] : i \in Rows(after21.subscriptions)}
                /\ SubscriptionRowOf(after1, EventSubscriptionId(e2))
                       = SubscriptionRowOf(Store, EventSubscriptionId(e2))

\* C14: at current week W the allowed data week is W for a caller with premium
\* access and max(0, W - 1) for every other caller, the absent one included; it
\* lies between 0 and W
C14_AllowedDataWeek ==
    last.op = "allowed-data-week" =>
        LET W == last.result.current_data_week
            premium == last.user # NoStr /\ has_premium_access(Store, last.user)
        IN  /\ last.result.allowed =
                   IF premium THEN W ELSE IF W >= 1 THEN W - 1 ELSE 0
            /\ last.result.allowed >= 0
            /\ last.result.allowed <= W

\* The absent caller asked at week 0 and was given week 0
C14_AbsentAtWeekZero ==
    /\ last.op = "allowed-data-week"
    /\ last.user = NoStr
    /\ last.result.current_data_week = 0
    /\ last.result.allowed = 0

\* C15: a principal with an active or trialing Subscription to a plan granting
\* premium_access has premium access whatever the legacy fields say
C15_SubscriptionGrantsPremium ==
    (last.op = "check-access" /\ SubscriptionGrants(last.user, "premium_access"))
        => last.result.premium_access

\* A principal whose legacy fields say free, not a superuser, was granted premium
\* access through its Subscription
C15_GrantedDespiteLegacy ==
    /\ last.op = "check-access"
    /\ ~users[last.user].is_superuser
    /\ users[last.user].subscription_tier = "free"
    /\ users[last.user].subscription_status \in {"none", "canceled"}
    /\ SubscriptionGrants(last.user, "premium_access")
    /\ last.result.premium_access

\* C16: after checkout.session.completed in subscription mode and then
\* customer.subscription.created for the same subscription, reporting active or
\* trialing under a price that resolves, the Subscription row has the reported
\* status and the legacy fields say subscriber, the reported status and the
\* event's subscription id
C16_SignupActivates ==
    (/\ SubscriptionEventServed
     /\ last.ev.type = "customer.subscription.created"
     /\ last.ev.status \in {"active", "trialing"}
     /\ get_plan_by_stripe_price_id(last.ev.price) # NoPlan) =>
        LET u == get_user_by_customer_id(Store, last.ev.customer)
            i == get_subscription_by_stripe_id(Store, last.ev.id)
        IN  /\ i # NULL
            /\ subscriptions[i].status = last.ev.status
            /\ users[u].subscription_tier = "subscriber"
            /\ users[u].subscription_status = last.ev.status
            /\ users[u].stripe_subscription_id = last.ev.id

\* A sign-up ended with a trialing subscription
C16_TrialStarted ==
    /\ SubscriptionEventServed
    /\ last.ev.type = "customer.subscription.created"
    /\ last.ev.status = "trialing"
    /\ \E i \in Rows(subscriptions) :
          /\ subscriptions[i].stripe_subscription_id = last.ev.id
          /\ subscriptions[i].status = "trialing"
          /\ subscriptions[i].trial_end # NULL
    /\ users[get_user_by_customer_id(Store, last.ev.customer)].subscription_tier
           = "subscriber"

\* C17: invoice.payment_failed for a known principal and a Subscription row this
\* system has sets the row to past_due and leaves its period, cancel flag and
\* ended_at alone, sets the legacy status to past_due, and appends exactly one
\* PaymentHistory row, payment_failed / failed, referencing the row
C17_PaymentFailed ==
    [][LET ev == last'.ev
           u == get_user_by_customer_id(Store, ev.customer)
           i == get_subscription_by_stripe_id(Store, ev.subscription)
       IN  (/\ last'.op = "webhook"
            /\ ev.type = "invoice.payment_failed"
            /\ u # NoStr
            /\ ev.subscription # NULL
            /\ i # NULL) =>
               /\ Len(subscriptions') = Len(subscriptions)
               /\ subscriptions'[i] = [subscriptions[i] EXCEPT !.status = "past_due"]
               /\ users'[u].subscription_status = "past_due"
               /\ Len(payment_history') = Len(payment_history) + 1
               /\ SubSeq(payment_history', 1, Len(payment_history)) = payment_history
               /\ payment_history'[Len(payment_history')].event_type = "payment_failed"
               /\ payment_history'[Len(payment_history')].status = "failed"
               /\ payment_history'[Len(payment_history')].subscription_id = i]_vars

\* A failed invoice was reconciled against a Subscription row with a running
\* period
C17_PastDueRecorded ==
    /\ last.op = "webhook"
    /\ last.ev.type = "invoice.payment_failed"
    /\ \E i \in Rows(subscriptions) :
          /\ subscriptions[i].stripe_subscription_id = last.ev.subscription
          /\ subscriptions[i].status = "past_due"
          /\ subscriptions[i].current_period_end # NULL
          /\ payment_history # <<>>
          /\ payment_history[Len(payment_history)].subscription_id = i
          /\ payment_history[Len(payment_history)].event_type = "payment_failed"
          /\ users[subscriptions[i].user_id].subscription_status = "past_due"

\* C18: customer.subscription.deleted for a known principal and an external id
\* with no Subscription row reports success, adds no Subscription, Purchase or
\* PaymentHistory row and changes no Subscription row, and resets the principal's
\* legacy fields to free / canceled with the period end and the subscription id
\* cleared
C18_DeletedUnknownSubscription ==
    [][LET ev == last'.ev
           u == get_user_by_customer_id(Store, ev.customer)
       IN  (/\ last'.op = "webhook"
            /\ ev.type = "customer.subscription.deleted"
            /\ u # NoStr
            /\ get_subscription_by_stripe_id(Store, ev.id) = NULL) =>
               /\ last'.result = "success"
               /\ subscriptions' = subscriptions
               /\ purchases' = purchases
               /\ payment_history' = payment_history
               /\ users'[u].subscription_tier = "free"
               /\ users'[u].subscription_status = "canceled"
               /\ users'[u].subscription_cancel_at_period_end = FALSE
               /\ users'[u].subscription_current_period_end = NULL
               /\ users'[u].stripe_subscription_id = NULL]_vars

\* A deletion for a subscription with no row here was absorbed and the legacy
\* fields reset
C18_UnknownDeletionAbsorbed ==
    /\ last.op = "webhook"
    /\ last.ev.type = "customer.subscription.deleted"
    /\ get_user_by_customer_id(Store, last.ev.customer) # NoStr
    /\ get_subscription_by_stripe_id(Store, last.ev.id) = NULL
    /\ users[get_user_by_customer_id(Store, last.ev.customer)].subscription_status
           = "canceled"
    /\ users[get_user_by_customer_id(Store, last.ev.customer)].stripe_subscription_id
           = NULL

\* C19: checkout.session.completed of a bidding-package session whose pending
\* Purchase is found by the session id completes that Purchase, stamps
\* purchased_at, stores the event's payment intent, sets the legacy flag and
\* appends exactly one payment_succeeded row referencing the Purchase
C19_BiddingCheckoutCompleted ==
    [][LET ev == last'.ev
           u == get_user_by_customer_id(Store, ev.customer)
           i == get_purchase_by_checkout_session(Store, ev.id)
       IN  (/\ last'.op = "webhook"
            /\ ev.type = "checkout.session.completed"
            /\ ev.mode = "payment"
            /\ ev.product_type = "bidding_package"
            /\ u # NoStr
            /\ i # NULL
            /\ purchases[i].status = "pending") =>
               /\ purchases'[i].status = "completed"
               /\ purchases'[i].purchased_at # NULL
               /\ purchases'[i].stripe_payment_intent_id = ev.payment_intent
               /\ users'[u].has_bidding_package
               /\ Len(payment_history') = Len(payment_history) + 1
               /\ SubSeq(payment_history', 1, Len(payment_history)) = payment_history
               /\ payment_history'[Len(payment_history')].event_type = "payment_succeeded"
               /\ payment_history'[Len(payment_history')].purchase_id = i]_vars

\* A bidding-package purchase was completed by its first delivery
C19_PurchaseCompleted ==
    /\ last.op = "webhook"
    /\ last.ev.type = "checkout.session.completed"
    /\ last.ev.product_type = "bidding_package"
    /\ \E i \in Rows(purchases) :
          /\ purchases[i].stripe_checkout_session_id = last.ev.id
          /\ purchases[i].status = "completed"
          /\ purchases[i].purchased_at # NULL
          /\ purchases[i].stripe_payment_intent_id = last.ev.payment_intent
          /\ users[purchases[i].user_id].has_bidding_package
          /\ Cardinality({h \in Rows(payment_history) :
                             payment_history[h].purchase_id = i}) = 1

\* C20: at most one Purchase per (principal, plan) is completed
C20_OneCompletedPurchasePerPlan ==
    \A u \in Users, plan_id \in PlanIds :
        Cardinality(CompletedPurchaseRows(Store, u, plan_id)) <= 1

\* A principal started the checkout of one plan more than once and one Purchase
\* of the plan was completed
C20_RepeatedStartOneCompleted ==
    \E u \in Users, plan_id \in PlanIds :
        /\ Cardinality(CompletedPurchaseRows(Store, u, plan_id)) = 1
        /\ Cardinality({k \in Rows(sessions) :
                           /\ sessions[k].customer = users[u].stripe_customer_id
                           /\ sessions[k].plan_id = plan_id
                           /\ sessions[k].product_type = "bidding_package"}) >= 2

\* C21: a verified event that cannot be applied is a successful no-op: when its
\* type is none of the six dispatched ones, or its customer id is absent or
\* held by no user, no user, Subscription, Purchase or PaymentHistory state
\* changes and the endpoint answers success.
C21_UnappliableEventNoOp ==
    [][LET ev == last'.ev
       IN  (/\ last'.op = "post-webhook"
            /\ last'.result.payload = "wellformed"
            /\ last'.result.sig_header = "valid"
            /\ \/ ev.type \notin {"checkout.session.completed",
                                  "customer.subscription.created",
                                  "customer.subscription.updated",
                                  "customer.subscription.deleted",
                                  "invoice.payment_succeeded",
                                  "invoice.payment_failed"}
               \/ ev.customer = NULL
               \/ \A u \in Users : users[u].stripe_customer_id # ev.customer)
           => /\ UNCHANGED <<users, subscriptions, purchases, payment_history>>
              /\ last'.result.response = "success"]_vars

\* A subscription-deleted event for a customer no user holds was served while
\* a user held a customer id and a pending purchase
C21_UnknownCustomerServed ==
    /\ last.op = "post-webhook"
    /\ last.result.response = "success"
    /\ last.ev.type = "customer.subscription.deleted"
    /\ last.ev.customer = Len(customers) + 1
    /\ \E u \in Users : users[u].stripe_customer_id # NULL
    /\ purchases # <<>>

\* C22: a delivery with no signature header, with a signature that does not
\* verify, or with a body that does not parse is answered with an error and
\* leaves users, subscriptions, purchases and payment history as they were;
\* a failed signature and a failed parse are answered with different errors.
C22_RejectedDeliveryNoOp ==
    [][LET r == last'.result
       IN  (last'.op = "post-webhook"
            /\ (r.sig_header # "valid" \/ r.payload # "wellformed"))
           => /\ UNCHANGED <<users, subscriptions, purchases, payment_history>>
              /\ r.response \in {"400_Missing stripe-signature header",
                                 "400_Invalid signature", "400_Invalid payload"}
              /\ r.sig_header = "missing"
                    => r.response = "400_Missing stripe-signature header"
              /\ (r.sig_header = "invalid" /\ r.payload = "wellformed")
                    => r.response = "400_Invalid signature"
              /\ (r.sig_header = "valid" /\ r.payload = "malformed")
                    => r.response = "400_Invalid payload"]_vars

\* A delivery whose signature did not verify was answered while a session
\* was waiting for its events
C22_BadSignatureRejected ==
    /\ last.op = "post-webhook"
    /\ last.result.sig_header = "invalid"
    /\ last.result.payload = "wellformed"
    /\ last.result.response = "400_Invalid signature"
    /\ sessions # <<>>

\* C23: a customer.subscription.created, customer.subscription.updated or
\* customer.subscription.deleted event never adds, changes or removes a
\* PaymentHistory row.
C23_SubscriptionEventsKeepPaymentHistory ==
    [][(/\ last'.op = "webhook"
        /\ last'.ev.type \in {"customer.subscription.created",
                              "customer.subscription.updated",
                              "customer.subscription.deleted"})
       => payment_history' = payment_history]_vars

\* A subscription event was applied to the Subscription row of a known user
\* while a payment was on record
C23_AppliedBesidePayments ==
    /\ last.op = "webhook"
    /\ last.ev.type \in {"customer.subscription.created", "customer.subscription.updated"}
    /\ payment_history # <<>>
    /\ \E i \in Rows(subscriptions) :
          /\ subscriptions[i].stripe_subscription_id = last.ev.id
          /\ subscriptions[i].status = "active"

\* C24: every Subscription row's status is one of pending, active, trialing,
\* past_due, canceled and expired; an event reporting incomplete,
\* incomplete_expired or a status the map does not list stores none other.
C24_SubscriptionStatusDomain ==
    \A i \in Rows(subscriptions) :
        subscriptions[i].status \in
            {"pending", "active", "trialing", "past_due", "canceled", "expired"}

\* C25: every Subscription row whose status is canceled has its ended_at set,
\* whether customer.subscription.deleted canceled it or a created or updated
\* event reported it canceled.
C25_CanceledHasEndedAt ==
    \A i \in Rows(subscriptions) :
        subscriptions[i].status = "canceled" => subscriptions[i].ended_at # NULL

\* C26: after a customer.subscription.created or customer.subscription.updated
\* event for a known user with a price the registry resolves, the Subscription
\* row's cancel_at_period_end and the user's legacy cancel flag both equal
\* (the event's cancel_at_period_end, or its cancel_at being set), whether the
\* row was inserted or updated.
C26_CancelFlagReconciled ==
    (/\ last.op = "webhook"
     /\ last.ev.type \in {"customer.subscription.created", "customer.subscription.updated"}
     /\ \E u \in Users : users[u].stripe_customer_id = last.ev.customer
     /\ last.ev.customer # NULL
     /\ last.ev.price \in {Plans[p].stripe_price_id : p \in PlanIds})
    => LET scheduled == last.ev.cancel_at_period_end \/ last.ev.cancel_at # NULL
       IN  /\ \A u \in Users :
                users[u].stripe_customer_id = last.ev.customer
                    => users[u].subscription_cancel_at_period_end = scheduled
           /\ \E i \in Rows(subscriptions) :
                /\ subscriptions[i].stripe_subscription_id = last.ev.id
                /\ subscriptions[i].cancel_at_period_end = scheduled

\* C27: in every reachable state, whatever webhook events and cancel requests
\* led to it, a user's legacy tier is subscriber only if the legacy status is
\* active or trialing.
C27_SubscriberTierImpliesLiveStatus ==
    \A u \in Users :
        users[u].subscription_tier = "subscriber"
            => users[u].subscription_status \in {"active", "trialing"}

\* C28: when concurrent checkout requests are made for a user that has no
\* provider customer id yet, at most one provider customer is created for the
\* user and every session created uses the customer id stored on the user, so
\* that the session's webhook events find the user.
C28_OneCustomerPerPrincipal ==
    \A u \in Users :
        /\ Cardinality({c \in Rows(customers) : customers[c] = u}) <= 1
        /\ \A r \in Rows(requests) :
              (requests[r].user = u /\ requests[r].session # NULL)
                  => sessions[requests[r].session].customer = users[u].stripe_customer_id

\* C29: a user who started a bidding-package checkout for a plan and abandoned
\* it (a pending Purchase, none completed) can start another: the second
\* start succeeds with a redirect URL, and when a session started this way
\* completes, a Purchase of the user for the plan is found by the session's
\* id and becomes completed.
C29_AbandonedCheckoutRestartable ==
    [][LET u == last'.user
           plan == last'.plan
           ev == last'.ev
       IN  /\ (/\ last'.op = "purchase-bidding-package"
               /\ plan \in PlanIds
               /\ \E i \in Rows(purchases) :
                     /\ purchases[i].user_id = u
                     /\ purchases[i].plan_id = plan
                     /\ purchases[i].status = "pending"
               /\ \A i \in Rows(purchases) :
                     purchases[i].user_id = u => purchases[i].status # "completed"
               /\ ~users[u].has_bidding_package
               /\ ~users[u].is_superuser)
              => last'.result = "200"
           /\ (/\ last'.op = "webhook"
               /\ ev.type = "checkout.session.completed"
               /\ ev.product_type = "bidding_package"
               /\ ev.plan_id \in PlanIds
               /\ ev.customer # NULL
               /\ \E w \in Users : users[w].stripe_customer_id = ev.customer)
              => \E i \in Rows(purchases') :
                    /\ purchases'[i].stripe_checkout_session_id = ev.id
                    /\ purchases'[i].plan_id = ev.plan_id
                    /\ users[purchases'[i].user_id].stripe_customer_id = ev.customer
                    /\ purchases'[i].status = "completed"]_vars

\* C30: every paid one-time checkout is fulfilled: once the
\* checkout.session.completed event of a payment-mode session, created by
\* create-checkout for a one_time plan or by purchase-bidding-package with or
\* without a plan, has been reconciled, the user has a completed Purchase for
\* the session's plan or the legacy bidding-package flag set.
C30_PaidCheckoutFulfilled ==
    (/\ last.op = "webhook"
     /\ last.ev.type = "checkout.session.completed"
     /\ last.ev.mode = "payment"
     /\ last.ev.customer # NULL)
    => \A u \in Users :
          users[u].stripe_customer_id = last.ev.customer
             => \/ users[u].has_bidding_package
                \/ \E i \in Rows(purchases) :
                      /\ purchases[i].user_id = u
                      /\ purchases[i].plan_id = last.ev.plan_id
                      /\ purchases[i].status = "completed"

====
